---- MODULE Spec2Model ----
(***************************************************************************)
(* Model of the loan explanation-and-recommendation pipeline:              *)
(*   predictor.LoanPredictor, explainer.LoanExplainer and                  *)
(*   recommender.LoanRecommender (src/backend/core).                       *)
(*                                                                         *)
(* Representation of numbers.                                              *)
(*   - attribution (SHAP) values are integers in units of 1/10000,         *)
(*     so the code's 0.1 is 1000 and its -0.05 is -500;                    *)
(*   - monetary amounts are integers in units of 100,000 rupees;           *)
(*   - class probabilities are integers in percent;                        *)
(*   - products and quotients of those are exact rationals in lowest       *)
(*     terms (Rat).  Rounding of IEEE doubles is not modelled.             *)
(***************************************************************************)
EXTENDS Integers, Sequences, FiniteSets, TLC

\* ------------------------------------------------------------------ bounds

\* How many features of an attribution profile a request may deviate on.
MaxOverride == 1
\* How far the feature axis of a raw attribution output may be off the
\* configured feature count (shorter or longer).
MaxExtra == 1

\* ------------------------------------------------------- numeric helpers

Abs(x) == IF x < 0 THEN -x ELSE x

RECURSIVE Gcd(_, _)
Gcd(a, b) == IF b = 0 THEN a ELSE Gcd(b, a % b)

\* The rational n/d (d > 0, n >= 0) in lowest terms.
Rat(n, d) == LET g == Gcd(n, d) IN [num |-> n \div g, den |-> d \div g]

\* ------------------------------------------------ model_loader.ModelLoader

feature_names ==
    << "no_of_dependents", "education", "self_employed", "income_annum",
       "loan_amount", "loan_term", "cibil_score", "residential_assets_value",
       "commercial_assets_value", "luxury_assets_value", "bank_asset_value" >>

NumFeatures == Len(feature_names)

Features == { feature_names[i] : i \in 1..NumFeatures }

\* Position of a feature in the declaration order (1-based).
FeatureIndex(f) == CHOOSE i \in 1..NumFeatures : feature_names[i] = f

\* target_encoder.inverse_transform: class index -> label.  Class 0 is the
\* approval class; the labels carry the data set's leading space.
target_classes == << " Approved", " Rejected" >>

\* object_encoder.transform on the two categorical columns.
object_encoder(v) ==
    CASE v = " Graduate"     -> 0
      [] v = " Not Graduate" -> 1
      [] v = " No"           -> 0
      [] v = " Yes"          -> 1

\* Variant: the label is compared as it comes from the encoder.
strip_identity(s) == s

\* str.strip() on the strings the model handles.
strip(s) ==
    CASE s = " Approved" -> "Approved"
      [] s = " Rejected" -> "Rejected"
      [] OTHER           -> s

\* ---------------------------------------------------------- Python values

\* Python's None.  Absent values are records with the single field "none",
\* tested with IsNone, never compared with =.
None == [none |-> TRUE]
IsNone(x) == "none" \in DOMAIN x

\* A raised exception, by the name of its class.
Raised(kind) == [raised |-> kind]
IsRaised(x) == "raised" \in DOMAIN x

\* x / y on Python numbers: ZeroDivisionError when y is zero.
TrueDiv(n, d) == IF d = 0 THEN Raised("ZeroDivisionError") ELSE Rat(n, d)

\* numpy arrays are records [shape, v] with v nested sequences, one level
\* per axis; a Python list is a record [items].
hasattr_shape(x) == "shape" \in DOMAIN x
isinstance_list(x) == "items" \in DOMAIN x

Array1(vals) == [shape |-> << Len(vals) >>, v |-> vals]
Array2(rows) == [shape |-> << Len(rows), Len(rows[1]) >>, v |-> rows]
Array3(cube) ==
    [shape |-> << Len(cube), Len(cube[1]), Len(cube[1][1]) >>, v |-> cube]

\* arr[0] on an array of two or more axes: the first sub-array.
FirstSubArray(arr) == [shape |-> Tail(arr.shape), v |-> arr.v[1]]

\* ------------------------------------------------ predictor.LoanPredictor

object_columns == { "education", "self_employed" }

\* Variant: no column check; the columns that are present are encoded.
preprocess_data_unchecked(d) ==
    [f \in Features \cap DOMAIN d |->
        IF f \in object_columns THEN object_encoder(d[f]) ELSE d[f]]

\* preprocess_data: every configured column must be present; columns are
\* put in the configured order and the categorical ones are encoded.
preprocess_data(d) ==
    IF \E f \in Features : f \notin DOMAIN d
    THEN Raised("ValueError")
    ELSE [f \in Features |->
            IF f \in object_columns THEN object_encoder(d[f]) ELSE d[f]]

\* Variant: the thresholds are exclusive.
_get_confidence_level_exclusive(probability) ==
    IF probability > 80 THEN "High"
    ELSE IF probability > 60 THEN "Medium"
    ELSE "Low"

_get_confidence_level(probability) ==
    IF probability >= 80 THEN "High"
    ELSE IF probability >= 60 THEN "Medium"
    ELSE "Low"

\* model.predict: the index of the first largest class probability.
model_predict(proba) == IF proba[1] >= proba[2] THEN 0 ELSE 1

\* predict_single, given the classifier's class probabilities for the row.
predict_single(d, proba) ==
    LET processed == preprocess_data(d)
        prediction == model_predict(proba)
        prob == proba[prediction + 1]
    IN  IF IsRaised(processed) THEN processed
        ELSE [prediction       |-> target_classes[prediction + 1],
              probability      |-> prob,
              confidence       |-> _get_confidence_level(prob),
              prediction_proba |-> proba]

\* ------------------------------------------------ explainer.LoanExplainer

approval_class == 0
top_n == 5
\* abs(shap_val) > 0.1
ImpactThreshold == 1000

\* Variant: the per-class list is read at index 1, the usual choice for the
\* positive class of a binary classifier.
SelectShapValues_class1(shap_values) ==
    IF hasattr_shape(shap_values)
    THEN IF Len(shap_values.shape) = 3
         THEN Array1([i \in 1..shap_values.shape[2] |->
                        shap_values.v[1][i][approval_class + 1]])
         ELSE IF Len(shap_values.shape) = 2
         THEN Array1(shap_values.v[1])
         ELSE shap_values
    ELSE IF isinstance_list(shap_values) /\ Len(shap_values.items) = 2
    THEN LET sel == shap_values.items[2]
         IN  IF hasattr_shape(sel) /\ Len(sel.shape) > 1
             THEN FirstSubArray(sel)
             ELSE sel
    ELSE IF hasattr_shape(shap_values) /\ Len(shap_values.shape) > 1
         THEN FirstSubArray(shap_values)
         ELSE shap_values

\* The shape handling of explain_prediction: which object the per-feature
\* values are read from.
SelectShapValues(shap_values) ==
    IF hasattr_shape(shap_values)
    THEN IF Len(shap_values.shape) = 3
         THEN \* shap_values[0, :, approval_class]
              Array1([i \in 1..shap_values.shape[2] |->
                        shap_values.v[1][i][approval_class + 1]])
         ELSE IF Len(shap_values.shape) = 2
         THEN \* shap_values[0, :]
              Array1(shap_values.v[1])
         ELSE shap_values
    ELSE IF isinstance_list(shap_values) /\ Len(shap_values.items) = 2
    THEN LET sel == shap_values.items[approval_class + 1]
         IN  IF hasattr_shape(sel) /\ Len(sel.shape) > 1
             THEN FirstSubArray(sel)
             ELSE sel
    ELSE IF hasattr_shape(shap_values) /\ Len(shap_values.shape) > 1
         THEN FirstSubArray(shap_values)
         ELSE shap_values

\* float(sel[i]) for 0 <= i < len(feature_names): what reading all the
\* configured positions raises, if anything.
ReadError(sel) ==
    IF hasattr_shape(sel)
    THEN IF Len(sel.shape) # 1 THEN "TypeError"
         ELSE IF sel.shape[1] < NumFeatures THEN "IndexError"
         ELSE "none"
    ELSE IF Len(sel.items) < NumFeatures THEN "IndexError"
         ELSE "TypeError"

\* Variant: the comprehension stops one position early.
ShapDict_short(sel) ==
    [f \in { feature_names[i] : i \in 1..(NumFeatures - 1) } |->
        sel.v[FeatureIndex(f)]]

\* shap_dict = {feature_names[i]: float(sel[i]) for i in range(len(feature_names))}
ShapDict(sel) == [f \in Features |-> sel.v[FeatureIndex(f)]]

\* Stable sort, as Python's list.sort and sorted: keys[i] is the key of
\* items[i]; equal keys keep their input order.  SortIdx gives the input
\* positions in output order.
RECURSIVE InsertStable(_, _, _)
InsertStable(sortedIdx, i, keys) ==
    IF sortedIdx = << >> THEN << i >>
    ELSE IF keys[Head(sortedIdx)] > keys[i] THEN << i >> \o sortedIdx
    ELSE << Head(sortedIdx) >> \o InsertStable(Tail(sortedIdx), i, keys)

RECURSIVE SortIdx(_, _)
SortIdx(n, keys) ==
    IF n = 0 THEN << >> ELSE InsertStable(SortIdx(n - 1, keys), n, keys)

StableSort(items, keys) ==
    LET perm == SortIdx(Len(items), keys)
    IN  [k \in 1..Len(items) |-> items[perm[k]]]

\* shap_values.items(): the (feature, value) pairs of the dict in insertion
\* order, which is the configured feature order.
Items(shap_values) ==
    LET IsKey(f) == f \in DOMAIN shap_values
        keys == SelectSeq(feature_names, IsKey)
    IN  [i \in 1..Len(keys) |-> << keys[i], shap_values[keys[i]] >>]

\* Variant: sorted on the signed value, without abs.
SortedFeatures_signed(shap_values) ==
    LET items == Items(shap_values)
    IN  StableSort(items, [i \in 1..Len(items) |-> -items[i][2]])

\* Variant: sorted ascending and then reversed, which also reverses the order
\* of equal keys.
SortedFeatures_reversed(shap_values) ==
    LET items  == Items(shap_values)
        n      == Len(items)
        sorted == StableSort(items, [i \in 1..n |-> Abs(items[i][2])])
    IN  [k \in 1..n |-> sorted[n + 1 - k]]

\* sorted(shap_values.items(), key=lambda x: abs(x[1]), reverse=True):
\* descending and stable, i.e. ascending on the negated key.
SortedFeatures(shap_values) ==
    LET items == Items(shap_values)
    IN  StableSort(items, [i \in 1..Len(items) |-> -Abs(items[i][2])])

\* _get_top_features
_get_top_features(shap_values, data_row) ==
    LET sorted_features == SortedFeatures(shap_values)
        n == IF Len(sorted_features) < top_n THEN Len(sorted_features) ELSE top_n
    IN  [i \in 1..n |->
            LET feature  == sorted_features[i][1]
                shap_val == sorted_features[i][2]
            IN  [rank          |-> i,
                 feature       |-> feature,
                 shap_value    |-> shap_val,
                 feature_value |-> data_row[feature],
                 impact        |-> IF shap_val > 0 THEN "Positive" ELSE "Negative",
                 importance    |-> Abs(shap_val)]]

\* f"{x:.3f}": x in thousandths, rounded to the nearest (no value drawn by
\* the model lies half-way between two thousandths).
Format3f(x) == (x + 5) \div 10

\* Variant: the threshold test admits a magnitude of exactly 0.1.
_get_feature_impact_inclusive(shap_values) ==
    [f \in { g \in DOMAIN shap_values : Abs(shap_values[g]) >= ImpactThreshold } |->
        IF shap_values[f] > 0
        THEN [text   |-> "Increases approval probability by",
              amount |-> Format3f(Abs(shap_values[f]))]
        ELSE [text   |-> "Decreases approval probability by",
              amount |-> Format3f(Abs(shap_values[f]))]]

\* _get_feature_impact
_get_feature_impact(shap_values) ==
    [f \in { g \in DOMAIN shap_values : Abs(shap_values[g]) > ImpactThreshold } |->
        IF shap_values[f] > 0
        THEN [text   |-> "Increases approval probability by",
              amount |-> Format3f(Abs(shap_values[f]))]
        ELSE [text   |-> "Decreases approval probability by",
              amount |-> Format3f(Abs(shap_values[f]))]]

\* explain_prediction from the point where both oracles have answered:
\* prediction_result is predict_single's result, processed_data the
\* preprocessed row, shap_values the attribution oracle's raw output.
BuildExplanation(prediction_result, processed_data, shap_values) ==
    LET sel == SelectShapValues(shap_values)
    IN  IF ReadError(sel) # "none" THEN Raised(ReadError(sel))
        ELSE LET shap_dict == ShapDict(sel)
             IN  [prediction  |-> prediction_result.prediction,
                  probability |-> prediction_result.probability,
                  shap_values |-> shap_dict,
                  top_contributing_features |->
                      _get_top_features(shap_dict, processed_data),
                  feature_impact |-> _get_feature_impact(shap_dict)]

\* ---------------------------------------------- recommender.LoanRecommender

\* shap_val < -0.05
ImprovementThreshold == -500

\* current_value * 1.2, * 1.5, * 1.3 as current * num / 10.  The amounts the
\* model draws are multiples of 10 units, so the quotient is exact.
Scaled(current_value, num) == (current_value * num) \div 10

\* Variant: impact carries the signed value.
Recommendation_signed(priority, feature, current_value, text, args, shap_val, actionable) ==
    [priority       |-> priority,
     feature        |-> feature,
     current_value  |-> current_value,
     recommendation |-> [text |-> text, args |-> args],
     impact         |-> shap_val,
     actionable     |-> actionable]

\* The dict appended for a rule that fires.
Recommendation(priority, feature, current_value, text, args, shap_val, actionable) ==
    [priority       |-> priority,
     feature        |-> feature,
     current_value  |-> current_value,
     recommendation |-> [text |-> text, args |-> args],
     impact         |-> Abs(shap_val),
     actionable     |-> actionable]

\* One pass of the loop body of _generate_specific_recommendations: the
\* recommendations (none or one) appended for one negative feature.
RuleFor(d, feature, shap_val) ==
    LET current_value == d[feature]
    IN  IF feature = "cibil_score"
        THEN IF current_value < 550
             THEN << Recommendation("High", feature, current_value,
                        "Improve CIBIL score from {} to 550+ for better approval chances",
                        << current_value >>, shap_val, TRUE) >>
             ELSE << >>
        ELSE IF feature = "income_annum"
        THEN LET target_income == Scaled(current_value, 12)
             IN  << Recommendation("Medium", feature, current_value,
                        "Increase annual income from {} to {}",
                        << current_value, target_income >>, shap_val, TRUE) >>
        ELSE IF feature = "loan_amount"
        THEN IF current_value > d["income_annum"] * 3
             THEN LET target_amount == d["income_annum"] * 3
                  IN  << Recommendation("High", feature, current_value,
                             "Reduce loan amount from {} to {} (3x annual income)",
                             << current_value, target_amount >>, shap_val, TRUE) >>
             ELSE << >>
        ELSE IF feature = "loan_term"
        THEN IF current_value > 15
             THEN << Recommendation("Medium", feature, current_value,
                        "Consider reducing loan term from {} to 10-15 years",
                        << current_value >>, shap_val, TRUE) >>
             ELSE << >>
        ELSE IF feature = "bank_asset_value"
        THEN LET target_assets == Scaled(current_value, 15)
             IN  << Recommendation("Medium", feature, current_value,
                        "Increase bank assets from {} to {}",
                        << current_value, target_assets >>, shap_val, TRUE) >>
        ELSE IF feature = "residential_assets_value"
        THEN LET target_assets == Scaled(current_value, 13)
             IN  << Recommendation("Low", feature, current_value,
                        "Increase residential assets from {} to {}",
                        << current_value, target_assets >>, shap_val, FALSE) >>
        ELSE << >>

\* Variant: the shap_value < 0 filter is missing.
NegativeFeatures_unfiltered(top_features) ==
    LET pairs == [i \in 1..Len(top_features) |->
                    << top_features[i].feature, top_features[i].shap_value >>]
        sorted_all == StableSort(pairs, [i \in 1..Len(pairs) |-> pairs[i][2]])
    IN  IF Len(sorted_all) > 5 THEN SubSeq(sorted_all, 1, 5) ELSE sorted_all

\* Variant: the filter is shap_value <= 0.
NegativeFeatures_nonpositive(top_features) ==
    LET pairs == [i \in 1..Len(top_features) |->
                    << top_features[i].feature, top_features[i].shap_value >>]
        IsNegative(p) == p[2] <= 0
        negative_features == SelectSeq(pairs, IsNegative)
        sorted_neg == StableSort(negative_features,
                         [i \in 1..Len(negative_features) |-> negative_features[i][2]])
    IN  IF Len(sorted_neg) > 5 THEN SubSeq(sorted_neg, 1, 5) ELSE sorted_neg

\* Variant: sorted with the least negative value first.
NegativeFeatures_leastfirst(top_features) ==
    LET pairs == [i \in 1..Len(top_features) |->
                    << top_features[i].feature, top_features[i].shap_value >>]
        IsNegative(p) == p[2] < 0
        negative_features == SelectSeq(pairs, IsNegative)
        sorted_neg == StableSort(negative_features,
                         [i \in 1..Len(negative_features) |-> -negative_features[i][2]])
    IN  IF Len(sorted_neg) > 5 THEN SubSeq(sorted_neg, 1, 5) ELSE sorted_neg

\* negative_features: the (feature, shap_value) pairs of the top features
\* with shap_value < 0, sorted by shap_value (most negative first), and
\* cut to the first five.
NegativeFeatures(top_features) ==
    LET pairs == [i \in 1..Len(top_features) |->
                    << top_features[i].feature, top_features[i].shap_value >>]
        IsNegative(p) == p[2] < 0
        negative_features == SelectSeq(pairs, IsNegative)
        sorted_neg == StableSort(negative_features,
                         [i \in 1..Len(negative_features) |-> negative_features[i][2]])
    IN  IF Len(sorted_neg) > 5 THEN SubSeq(sorted_neg, 1, 5) ELSE sorted_neg

RECURSIVE ApplyRules(_, _)
ApplyRules(d, negative_features) ==
    IF negative_features = << >> THEN << >>
    ELSE RuleFor(d, Head(negative_features)[1], Head(negative_features)[2])
         \o ApplyRules(d, Tail(negative_features))

\* Variant: the candidates come from the whole attribution map instead of
\* the top features.
_generate_specific_recommendations_all(d, shap_values, top_features) ==
    LET items == Items(shap_values)
        every == [i \in 1..Len(items) |->
                    [feature |-> items[i][1], shap_value |-> items[i][2]]]
    IN  ApplyRules(d, NegativeFeatures(every))

\* _generate_specific_recommendations; shap_values is an argument the code
\* never reads.
_generate_specific_recommendations(d, shap_values, top_features) ==
    ApplyRules(d, NegativeFeatures(top_features))

\* Variant: the credit-score gap is normalised by the width of the score
\* range, 600, instead of 900.
ImprovementFor_range(d, feature, shap_val) ==
    IF shap_val < ImprovementThreshold
    THEN IF feature = "cibil_score"
         THEN LET current_score == d[feature]
              IN  IF current_score < 750
                  THEN Rat(Abs(shap_val) * (750 - current_score), 600)
                  ELSE None
         ELSE IF feature = "loan_amount"
         THEN LET current_amount == d[feature]
                  income == d["income_annum"]
              IN  IF current_amount > income * 3
                  THEN TrueDiv(Abs(shap_val) * (current_amount - income * 3),
                               current_amount)
                  ELSE None
         ELSE IF feature = "income_annum"
         THEN Rat(Abs(shap_val) * 2, 10)
         ELSE None
    ELSE None

\* Variant: the credit-score improvement is only estimated below 500.
ImprovementFor_below500(d, feature, shap_val) ==
    IF shap_val < ImprovementThreshold
    THEN IF feature = "cibil_score"
         THEN LET current_score == d[feature]
              IN  IF current_score < 500
                  THEN Rat(Abs(shap_val) * (750 - current_score), 900)
                  ELSE None
         ELSE IF feature = "loan_amount"
         THEN LET current_amount == d[feature]
                  income == d["income_annum"]
              IN  IF current_amount > income * 3
                  THEN TrueDiv(Abs(shap_val) * (current_amount - income * 3),
                               current_amount)
                  ELSE None
         ELSE IF feature = "income_annum"
         THEN Rat(Abs(shap_val) * 2, 10)
         ELSE None
    ELSE None

\* Variant: an attribution of exactly -0.05 counts as well.
ImprovementFor_inclusive(d, feature, shap_val) ==
    IF shap_val <= ImprovementThreshold
    THEN IF feature = "cibil_score"
         THEN LET current_score == d[feature]
              IN  IF current_score < 750
                  THEN Rat(Abs(shap_val) * (750 - current_score), 900)
                  ELSE None
         ELSE IF feature = "loan_amount"
         THEN LET current_amount == d[feature]
                  income == d["income_annum"]
              IN  IF current_amount > income * 3
                  THEN TrueDiv(Abs(shap_val) * (current_amount - income * 3),
                               current_amount)
                  ELSE None
         ELSE IF feature = "income_annum"
         THEN Rat(Abs(shap_val) * 2, 10)
         ELSE None
    ELSE None

\* Variant: the loan-amount guard admits a loan of exactly three times the
\* income.
ImprovementFor_atleast(d, feature, shap_val) ==
    IF shap_val < ImprovementThreshold
    THEN IF feature = "cibil_score"
         THEN LET current_score == d[feature]
              IN  IF current_score < 750
                  THEN Rat(Abs(shap_val) * (750 - current_score), 900)
                  ELSE None
         ELSE IF feature = "loan_amount"
         THEN LET current_amount == d[feature]
                  income == d["income_annum"]
              IN  IF current_amount >= income * 3
                  THEN TrueDiv(Abs(shap_val) * (current_amount - income * 3),
                               current_amount)
                  ELSE None
         ELSE IF feature = "income_annum"
         THEN Rat(Abs(shap_val) * 2, 10)
         ELSE None
    ELSE None

\* One pass of the loop body of _calculate_potential_improvements: the
\* improvement stored for one feature, or None.
ImprovementFor(d, feature, shap_val) ==
    IF shap_val < ImprovementThreshold
    THEN IF feature = "cibil_score"
         THEN LET current_score == d[feature]
              IN  IF current_score < 750
                  THEN Rat(Abs(shap_val) * (750 - current_score), 900)
                  ELSE None
         ELSE IF feature = "loan_amount"
         THEN LET current_amount == d[feature]
                  income == d["income_annum"]
              IN  IF current_amount > income * 3
                  THEN TrueDiv(Abs(shap_val) * (current_amount - income * 3),
                               current_amount)
                  ELSE None
         ELSE IF feature = "income_annum"
         THEN Rat(Abs(shap_val) * 2, 10)
         ELSE None
    ELSE None

\* Variant: only the five top-ranked features are looked at.
_calculate_potential_improvements_top5(d, shap_values) ==
    LET sorted_features == SortedFeatures(shap_values)
        top == { sorted_features[i][1] : i \in 1..top_n }
    IN  [f \in { g \in top : ~IsNone(ImprovementFor(d, g, shap_values[g])) } |->
            ImprovementFor(d, f, shap_values[f])]

\* _calculate_potential_improvements: values in attribution units.  An
\* exception raised in the loop body ends the loop.
_calculate_potential_improvements(d, shap_values) ==
    LET failing == { g \in DOMAIN shap_values :
                       IsRaised(ImprovementFor(d, g, shap_values[g])) }
    IN  IF failing # {}
        THEN LET g == CHOOSE g \in failing : TRUE
             IN  ImprovementFor(d, g, shap_values[g])
        ELSE [f \in { g \in DOMAIN shap_values :
                        ~IsNone(ImprovementFor(d, g, shap_values[g])) } |->
                 ImprovementFor(d, f, shap_values[f])]

\* The empty dict.
EmptyDict == [f \in {} |-> None]

\* generate_recommendations from the point where explain_prediction has
\* returned explanation.
BuildRecommendations(d, explanation) ==
    IF strip(explanation.prediction) = "Approved"
    THEN [current_prediction |-> explanation.prediction,
          recommendations |->
              << [priority       |-> "High",
                  feature        |-> "loan_approved",
                  recommendation |->
                      [text |-> "Congratulations! Your loan has been approved. Continue maintaining your good financial profile.",
                       args |-> << >>],
                  actionable     |-> TRUE] >>,
          potential_improvements |-> EmptyDict]
    ELSE LET recommendations ==
                 _generate_specific_recommendations(
                     d, explanation.shap_values,
                     explanation.top_contributing_features)
             potential_improvements ==
                 _calculate_potential_improvements(d, explanation.shap_values)
         IN  IF IsRaised(potential_improvements) THEN potential_improvements
             ELSE [current_prediction |-> explanation.prediction,
                   recommendations |-> recommendations,
                   potential_improvements |-> potential_improvements]

\* ------------------------------------------------------------------ inputs

\* utils.get_sample_data, amounts in units of 100,000 rupees.
sample_data ==
    [no_of_dependents |-> 2, education |-> " Graduate", self_employed |-> " No",
     income_annum |-> 80, loan_amount |-> 250, loan_term |-> 15,
     cibil_score |-> 750, residential_assets_value |-> 50,
     commercial_assets_value |-> 30, luxury_assets_value |-> 20,
     bank_asset_value |-> 10]

CibilScores == { 500, 550, 600, 750 }
\* << income_annum, loan_amount >>: above and exactly at three times income.
IncomeAndLoan == { << 80, 300 >>, << 80, 240 >> }
LoanTerms == { 15, 16 }

\* The validated applications requests are made with.
Applications ==
    { [sample_data EXCEPT !.cibil_score = c, !.income_annum = il[1],
                          !.loan_amount = il[2], !.loan_term = t] :
        c \in CibilScores, il \in IncomeAndLoan, t \in LoanTerms }

OtherApplications ==
    { sample_data,
      [sample_data EXCEPT !.education = " Not Graduate", !.self_employed = " Yes"] }

\* Applications with one of the configured features missing, as a caller
\* that does not go through the validator can pass them.
IncompleteApplications ==
    { [f \in Features \ { g } |-> sample_data[f]] : g \in Features }

Endpoints == { "predict", "explain", "recommend" }

\* Applications on the edges of what validate_loan_input accepts: amounts of
\* zero, the ends of the credit-score and loan-term ranges.
BoundaryApplications ==
    { [sample_data EXCEPT !.income_annum = 0, !.loan_amount = 0],
      [sample_data EXCEPT !.income_annum = 0, !.loan_amount = 50],
      [sample_data EXCEPT !.cibil_score = 300, !.loan_term = 1,
                          !.residential_assets_value = 0,
                          !.bank_asset_value = 0],
      [sample_data EXCEPT !.cibil_score = 900, !.loan_term = 30,
                          !.no_of_dependents = 0] }

\* What validate_loan_input accepts, for cleaned values: amounts not below
\* zero, dependents 0..10, credit score 300..900, loan term 1..30 years.
ValidatorAccepts(d) ==
    /\ DOMAIN d = Features
    /\ \A f \in { "income_annum", "loan_amount", "residential_assets_value",
                  "commercial_assets_value", "luxury_assets_value",
                  "bank_asset_value" } : d[f] >= 0
    /\ d.education \in { " Graduate", " Not Graduate" }
    /\ d.self_employed \in { " Yes", " No" }
    /\ 0 <= d.no_of_dependents /\ d.no_of_dependents <= 10
    /\ 300 <= d.cibil_score /\ d.cibil_score <= 900
    /\ 1 <= d.loan_term /\ d.loan_term <= 30

ApplicationsFor(e) ==
    IF e = "recommend" THEN Applications \cup BoundaryApplications
    ELSE OtherApplications

\* The classifier's probability (percent) of class 0, the approval class.
ApprovalProbabilities(e) ==
    IF e = "predict" THEN { 0, 20, 21, 40, 41, 50, 60, 79, 80, 100 } ELSE { 20, 90 }

\* Attribution profiles for the approval class, in feature order.
Profiles ==
    { << 0, 0, 0, 0, 0, 0, 0, 0, 0, 0, 0 >>,
      << -600, -600, -600, -600, -600, -600, -600, -600, -600, -600, -600 >>,
      << 100, -50, 0, -800, -1200, -1500, -3000, -600, -400, 550, -700 >>,
      << -200, 100, 0, 900, -1100, 700, 2500, 300, 200, 150, 650 >>,
      << 1000, 96, 0, -600, -1236, 1004, 2504, -1004, -1000, 1236, 1500 >> }

OverrideVals == { -3000, -500, 0, 1000 }

\* The profiles with up to k positions overridden.
RECURSIVE Vectors(_)
Vectors(k) ==
    IF k = 0 THEN Profiles
    ELSE LET prev == Vectors(k - 1)
         IN  prev \cup { [a EXCEPT ![i] = v] :
                           a \in prev, i \in 1..NumFeatures, v \in OverrideVals }

\* A profile with its feature axis cut or extended to length n.
Resized(a, n) ==
    [i \in 1..n |-> IF i <= Len(a) THEN a[i] ELSE 770 + i]

Negated(a) == [i \in 1..Len(a) |-> -a[i]]

Formats == { "array3", "array2", "array1", "list_of_array1", "list_of_array2" }

\* The attribution oracle's output for approval-class values a in a given
\* format.  The two classes of a binary classifier have opposite
\* attributions.
RawOutput(format, a) ==
    CASE format = "array3" ->
            Array3(<< [i \in 1..Len(a) |-> << a[i], -a[i] >>] >>)
      [] format = "array2" -> Array2(<< a >>)
      [] format = "array1" -> Array1(a)
      [] format = "list_of_array1" ->
            [items |-> << Array1(a), Array1(Negated(a)) >>]
      [] format = "list_of_array2" ->
            [items |-> << Array2(<< a >>), Array2(<< Negated(a) >>) >>]

\* What explainer.shap_values may return, as << format, values >>: every
\* vector in the 3-D format, and every profile in every format with the
\* feature axis up to MaxExtra off the configured length.
RawChoices ==
    { << "array3", a >> : a \in Vectors(MaxOverride) }
    \cup { << fmt, Resized(a, n) >> :
             fmt \in Formats, a \in Profiles,
             n \in (NumFeatures - MaxExtra)..(NumFeatures + MaxExtra) }

\* ------------------------------------------------------------------- state

VARIABLES
    pc,                 \* where the request in flight is
    endpoint,           \* which endpoint it came in on
    data,               \* its input
    prediction_result,  \* predict_single's result
    shap_values,        \* the attribution oracle's raw output
    explanation,        \* explain_prediction's result
    response,           \* what the core returned or raised
    raised,             \* the exception as it was first raised, if any
    invoked,            \* the oracle methods invoked for the request, in order
    model_loader,       \* the process-wide ModelLoader instance
    calls,              \* the locals of core calls that run side by side
    validation,         \* a call of validate_loan_input
    batch               \* a request to the batch prediction handler

vars ==
    << pc, endpoint, data, prediction_result, shap_values, explanation,
       response, raised, invoked, model_loader, calls, validation, batch >>

api_vars == << validation, batch >>

\* No call of validate_loan_input in progress.
IdleValidation ==
    [pc |-> "idle", data |-> None, passed |-> None, cleaned_data |-> None]

\* No batch request in progress.
IdleBatch ==
    [pc |-> "idle", data |-> << >>, validated_data |-> << >>,
     answers |-> << >>, invoked |-> << >>, results |-> << >>,
     response |-> None]

\* ModelLoader after __init__ and load_models: the models and encoders by
\* name (each stands for the object unpickled from its file) and the
\* configured feature list.
LoadedAtStartup ==
    [models        |-> [random_forest |-> "enc1_random_forest.pkl",
                        decision_tree |-> "enc1_decision_tree.pkl"],
     encoders      |-> [object_encoder |-> "enc1_object_encoder.pkl",
                        target_encoder |-> "enc1_target_encoder.pkl"],
     feature_names |-> feature_names]

\* Variant: the loader's own list is handed out.
get_feature_names_shared(loader) ==
    [list |-> loader.feature_names, is_copy |-> FALSE]

\* get_feature_names: self.feature_names.copy().  A list object is a record
\* of its elements and of whether it is a copy or the loader's own list.
get_feature_names(loader) ==
    [list |-> loader.feature_names, is_copy |-> TRUE]

\* The locals of a core call that has not started.
IdleCall ==
    [pc |-> "idle", endpoint |-> "none", data |-> None, submitted |-> None,
     classifier_answer |-> None, prediction_result |-> None,
     shap_values |-> None, explanation |-> None, response |-> None]

Calls == { "c1", "c2" }

Init ==
    /\ pc = "idle"
    /\ endpoint = "none"
    /\ data = None
    /\ prediction_result = None
    /\ shap_values = None
    /\ explanation = None
    /\ response = None
    /\ raised = None
    /\ invoked = << >>
    /\ model_loader = LoadedAtStartup
    /\ calls = [c \in Calls |-> IdleCall]
    /\ validation = IdleValidation
    /\ batch = IdleBatch

\* Variant: the handler raises a new exception in place of the one caught.
LogAndRaise_wrapped(e) == Raised("RuntimeError")

\* except Exception as e: logger.error(...); raise
LogAndRaise(e) == e

\* What the caller of endpoint ep's core function gets when e is raised in
\* the body of origin: e after every enclosing handler, innermost first.
\* explain_prediction calls predict_single and generate_recommendations calls
\* explain_prediction, each inside its own try.
Propagate(e, origin, ep) ==
    LET a == IF origin = "predict_single" THEN LogAndRaise(e) ELSE e
        b == IF ep \in { "explain", "recommend" }
                  /\ origin \in { "predict_single", "explain_prediction" }
             THEN LogAndRaise(a)
             ELSE a
    IN  IF ep = "recommend" THEN LogAndRaise(b) ELSE b

\* A request reaches the core: a validated application, or, from a caller
\* that bypasses the validator, one with a feature missing.
Request ==
    /\ pc = "idle"
    /\ \E e \in Endpoints :
          /\ endpoint' = e
          /\ \/ \E d \in ApplicationsFor(e) : data' = d
             \/ \E d \in IncompleteApplications : data' = d
    /\ pc' = "received"
    /\ UNCHANGED << prediction_result, shap_values, explanation, response, raised,
                    invoked, model_loader, calls, api_vars >>

\* Variant: a failed predict_proba is tried once more.
ClassifierCalls_retried(outcome) ==
    CASE outcome = "missing_column" -> << >>
      [] outcome = "predict_proba_raises" -> << "predict_proba", "predict_proba" >>
      [] OTHER -> << "predict_proba", "predict" >>

\* The classifier methods predict_single has invoked when it ends with
\* outcome: none when preprocessing raises, model.predict_proba and then
\* model.predict otherwise, the second only if the first returned.
ClassifierCalls(outcome) ==
    CASE outcome = "missing_column" -> << >>
      [] outcome = "predict_proba_raises" -> << "predict_proba" >>
      [] OTHER -> << "predict_proba", "predict" >>

\* predictor.predict_single: preprocessing, the classifier call and its
\* post-processing.  It is the whole of the predict endpoint and the first
\* step of explain_prediction.  The classifier answers with class
\* probabilities or raises.
PredictSingle ==
    /\ pc = "received"
    /\ \/ \E p0 \in ApprovalProbabilities(endpoint) :
             LET result == predict_single(data, << p0, 100 - p0 >>)
             IN  IF IsRaised(result)
                 THEN /\ prediction_result' = None
                      /\ raised' = result
                      /\ invoked' = ClassifierCalls("missing_column")
                      /\ response' = Propagate(result, "predict_single", endpoint)
                      /\ pc' = "failed"
                 ELSE /\ prediction_result' = result
                      /\ raised' = None
                      /\ invoked' = ClassifierCalls("returns")
                      /\ IF endpoint = "predict"
                         THEN /\ response' = result
                              /\ pc' = "done"
                         ELSE /\ response' = None
                              /\ pc' = "predicted"
       \/ /\ ~IsRaised(preprocess_data(data))
          /\ \E outcome \in { "predict_proba_raises", "predict_raises" } :
                invoked' = ClassifierCalls(outcome)
          /\ prediction_result' = None
          /\ raised' = Raised("ClassifierError")
          /\ response' = Propagate(Raised("ClassifierError"), "predict_single", endpoint)
          /\ pc' = "failed"
    /\ UNCHANGED << endpoint, data, shap_values, explanation, model_loader, calls, api_vars >>

\* self.explainer.shap_values(processed_data): the attribution oracle call,
\* which answers with an array or a list of arrays, or raises.
ShapValues ==
    /\ pc = "predicted"
    /\ invoked' = Append(invoked, "shap_values")
    /\ \/ /\ \E c \in RawChoices : shap_values' = RawOutput(c[1], c[2])
          /\ pc' = "attributed"
          /\ UNCHANGED << response, raised >>
       \/ /\ shap_values' = None
          /\ raised' = Raised("AttributionError")
          /\ response' = Propagate(Raised("AttributionError"), "explain_prediction", endpoint)
          /\ pc' = "failed"
    /\ UNCHANGED << endpoint, data, prediction_result, explanation, model_loader, calls, api_vars >>

\* The rest of explain_prediction: shape handling, shap_dict, ranking and
\* impact texts; an exception propagates to the caller.
ExplainPrediction ==
    /\ pc = "attributed"
    /\ LET result == BuildExplanation(prediction_result, preprocess_data(data),
                                      shap_values)
       IN  IF IsRaised(result)
           THEN /\ explanation' = None
                /\ raised' = result
                /\ response' = Propagate(result, "explain_prediction", endpoint)
                /\ pc' = "failed"
           ELSE /\ explanation' = result
                /\ raised' = None
                /\ IF endpoint = "explain"
                   THEN /\ response' = result
                        /\ pc' = "done"
                   ELSE /\ response' = None
                        /\ pc' = "explained"
    /\ UNCHANGED << endpoint, data, prediction_result, shap_values, invoked,
                    model_loader, calls, api_vars >>

\* The rest of generate_recommendations, after explain_prediction returned.
GenerateRecommendations ==
    /\ pc = "explained"
    /\ LET result == BuildRecommendations(data, explanation)
       IN  IF IsRaised(result)
           THEN /\ raised' = result
                /\ response' = Propagate(result, "generate_recommendations", endpoint)
                /\ pc' = "failed"
           ELSE /\ raised' = None
                /\ response' = result
                /\ pc' = "done"
    /\ UNCHANGED << endpoint, data, prediction_result, shap_values, explanation,
                    invoked, model_loader, calls, api_vars >>

\* The call returns or raises; its request-scoped objects are discarded.
Return ==
    /\ pc \in { "done", "failed" }
    /\ pc' = "idle"
    /\ endpoint' = "none"
    /\ data' = None
    /\ prediction_result' = None
    /\ shap_values' = None
    /\ explanation' = None
    /\ response' = None
    /\ raised' = None
    /\ invoked' = << >>
    /\ UNCHANGED << model_loader, calls, api_vars >>

\* GET /models: the handler asks the loader for the feature names and
\* returns them with their count.
ModelInfo ==
    /\ pc = "idle"
    /\ endpoint' = "models"
    /\ response' =
          [available_models |-> << "random_forest", "decision_tree" >>,
           default_model    |-> "random_forest",
           feature_count    |-> Len(get_feature_names(model_loader).list),
           features         |-> get_feature_names(model_loader)]
    /\ pc' = "done"
    /\ UNCHANGED << data, prediction_result, shap_values, explanation, raised,
                    invoked, model_loader, calls, api_vars >>

\* The caller changes the list it was handed, by append or by pop.  The
\* loader's list changes with it only if it is the same list object.
CallerMutatesList ==
    /\ pc = "done"
    /\ endpoint = "models"
    /\ response.features.list = model_loader.feature_names
    /\ LET list == response.features.list
       IN  \E mutated \in { Append(list, "extra_column"),
                             SubSeq(list, 1, Len(list) - 1) } :
              /\ response' = [response EXCEPT !.features.list = mutated]
              /\ model_loader' =
                    IF response.features.is_copy THEN model_loader
                    ELSE [model_loader EXCEPT !.feature_names = mutated]
    /\ UNCHANGED << pc, endpoint, data, prediction_result, shap_values,
                    explanation, raised, invoked, calls, api_vars >>

Next ==
    \/ Request
    \/ PredictSingle
    \/ ShapValues
    \/ ExplainPrediction
    \/ GenerateRecommendations
    \/ Return
    \/ ModelInfo
    \/ CallerMutatesList

Spec == Init /\ [][Next]_vars

\* ------------------------------------------------- calls running side by side

\* The core functions are plain synchronous functions of module-level
\* singletons; each call keeps what it works on in locals.  calls[c] holds
\* the locals of call c; the steps of different calls interleave freely.

ConcurrentApplications ==
    { sample_data,
      [sample_data EXCEPT !.cibil_score = 500, !.loan_amount = 300],
      [f \in Features \ { "cibil_score" } |-> sample_data[f]] }

ConcurrentProfiles ==
    { << 100, -50, 0, -800, -1200, -1500, -3000, -600, -400, 550, -700 >>,
      << -200, 100, 0, 900, -1100, 700, 2500, 300, 200, 150, 650 >> }

\* Attribution outputs of the configured length and one value short.
ConcurrentRawChoices ==
    { << "array3", a >> : a \in ConcurrentProfiles }
    \cup { << "list_of_array1", Resized(a, NumFeatures - 1) >> :
             a \in ConcurrentProfiles }

request_vars ==
    << pc, endpoint, data, prediction_result, shap_values, explanation,
       response, raised, invoked >>

\* Variant: the explanation is kept where every call sees it, so a call may
\* pick up the one another call has stored.
ExplanationOf_shared(c) ==
    LET others == { o \in Calls \ { c } : ~IsNone(calls[o].explanation) }
    IN  IF others # {}
        THEN calls[CHOOSE o \in others : TRUE].explanation
        ELSE calls[c].explanation

\* explanation = self.explainer.explain_prediction(data): a local of the call.
ExplanationOf(c) == calls[c].explanation

\* A caller enters predict_single, explain_prediction or
\* generate_recommendations with its own mapping.
CallRequest(c) ==
    /\ calls[c].pc = "idle"
    /\ \E e \in Endpoints : \E d \in ConcurrentApplications :
          calls' = [calls EXCEPT ![c] =
                       [IdleCall EXCEPT !.pc = "received", !.endpoint = e,
                                        !.data = d, !.submitted = d]]
    /\ UNCHANGED << request_vars, model_loader, api_vars >>

\* predict_single of call c.
CallPredictSingle(c) ==
    LET r == calls[c]
    IN  /\ r.pc = "received"
        /\ \/ \E p0 \in { 20, 90 } :
                 LET answer == [proba |-> << p0, 100 - p0 >>]
                     result == predict_single(r.data, answer.proba)
                 IN  calls' = [calls EXCEPT ![c] =
                        IF IsRaised(result)
                        THEN [r EXCEPT !.pc = "failed",
                                       !.response = Propagate(result, "predict_single", r.endpoint)]
                        ELSE [r EXCEPT !.classifier_answer = answer,
                                       !.prediction_result = result,
                                       !.response = IF r.endpoint = "predict" THEN result ELSE None,
                                       !.pc = IF r.endpoint = "predict" THEN "done" ELSE "predicted"]]
           \/ /\ ~IsRaised(preprocess_data(r.data))
              /\ calls' = [calls EXCEPT ![c] =
                    [r EXCEPT !.classifier_answer = Raised("ClassifierError"),
                              !.response = Propagate(Raised("ClassifierError"),
                                                     "predict_single", r.endpoint),
                              !.pc = "failed"]]
        /\ UNCHANGED << request_vars, model_loader, api_vars >>

\* The attribution oracle call of call c.
CallShapValues(c) ==
    LET r == calls[c]
    IN  /\ r.pc = "predicted"
        /\ \/ \E ch \in ConcurrentRawChoices :
                 calls' = [calls EXCEPT ![c] =
                    [r EXCEPT !.shap_values = RawOutput(ch[1], ch[2]),
                              !.pc = "attributed"]]
           \/ calls' = [calls EXCEPT ![c] =
                 [r EXCEPT !.shap_values = Raised("AttributionError"),
                           !.response = Propagate(Raised("AttributionError"),
                                                  "explain_prediction", r.endpoint),
                           !.pc = "failed"]]
        /\ UNCHANGED << request_vars, model_loader, api_vars >>

\* The rest of explain_prediction of call c.
CallExplainPrediction(c) ==
    LET r == calls[c]
        result == BuildExplanation(r.prediction_result, preprocess_data(r.data),
                                   r.shap_values)
    IN  /\ r.pc = "attributed"
        /\ calls' = [calls EXCEPT ![c] =
              IF IsRaised(result)
              THEN [r EXCEPT !.pc = "failed",
                             !.response = Propagate(result, "explain_prediction", r.endpoint)]
              ELSE [r EXCEPT !.explanation = result,
                             !.response = IF r.endpoint = "explain" THEN result ELSE None,
                             !.pc = IF r.endpoint = "explain" THEN "done" ELSE "explained"]]
        /\ UNCHANGED << request_vars, model_loader, api_vars >>

\* The rest of generate_recommendations of call c.
CallGenerateRecommendations(c) ==
    LET r == calls[c]
        result == BuildRecommendations(r.data, ExplanationOf(c))
    IN  /\ r.pc = "explained"
        /\ calls' = [calls EXCEPT ![c] =
              IF IsRaised(result)
              THEN [r EXCEPT !.pc = "failed",
                             !.response = Propagate(result, "generate_recommendations", r.endpoint)]
              ELSE [r EXCEPT !.response = result, !.pc = "done"]]
        /\ UNCHANGED << request_vars, model_loader, api_vars >>

\* Call c returns or raises; its locals are gone.
CallReturn(c) ==
    /\ calls[c].pc \in { "done", "failed" }
    /\ calls' = [calls EXCEPT ![c] = IdleCall]
    /\ UNCHANGED << request_vars, model_loader, api_vars >>

\* Call c is abandoned part-way (its thread or task is cancelled); its
\* locals are gone.
CallAbandon(c) ==
    /\ calls[c].pc \in { "received", "predicted", "attributed", "explained" }
    /\ calls' = [calls EXCEPT ![c] = IdleCall]
    /\ UNCHANGED << request_vars, model_loader, api_vars >>

NextConcurrent ==
    \E c \in Calls :
        \/ CallRequest(c)
        \/ CallPredictSingle(c)
        \/ CallShapValues(c)
        \/ CallExplainPrediction(c)
        \/ CallGenerateRecommendations(c)
        \/ CallReturn(c)
        \/ CallAbandon(c)

SpecConcurrent == Init /\ [][NextConcurrent]_vars

\* --------------------------------------------- utils.validate_loan_input

required_fields == Features

float_fields ==
    { "income_annum", "loan_amount", "residential_assets_value",
      "commercial_assets_value", "luxury_assets_value", "bank_asset_value" }

\* Variant: the value is kept as it came.
NormalizeLabel_kept(v) == v

\* f" {v}" for the four labels that come without the leading space.
NormalizeLabel(v) ==
    CASE v = "Graduate"     -> " Graduate"
      [] v = "Not Graduate" -> " Not Graduate"
      [] v = "Yes"          -> " Yes"
      [] v = "No"           -> " No"
      [] OTHER              -> v

int_fields == { "no_of_dependents", "loan_term", "cibil_score" }

\* What a caller can put in an integer field: a Python int, a Python float
\* given in tenths (9005 is 900.5), or a string that is not a number.
PyInt(n) == [kind |-> "int", v |-> n]
PyFloat(t) == [kind |-> "float", tenths |-> t]
PyStr(s) == [kind |-> "str", s |-> s]

\* int(x): an int is kept, a float is truncated toward zero, a string that
\* is not a number raises ValueError.
to_int(x) ==
    CASE x.kind = "int" -> x.v
      [] x.kind = "float" ->
            IF x.tenths >= 0 THEN x.tenths \div 10 ELSE -((-x.tenths) \div 10)
      [] OTHER -> Raised("ValueError")

\* lo <= x <= hi
InRange(lo, x, hi) == lo <= x /\ x <= hi

\* cleaned_data = data.copy(): a new mapping with the same entries.
data_copy(d) == [mapping |-> d, is_copy |-> TRUE]

\* validate_loan_input on a mapping whose amounts hold numbers (float() keeps
\* their value): the cleaned mapping, or the ValueError of the first check
\* that fails.
validate_loan_input(d) ==
    IF \E f \in required_fields : f \notin DOMAIN d
    THEN Raised("ValueError")
    ELSE IF \E f \in int_fields : d[f].kind = "str"
    THEN Raised("ValueError")
    ELSE LET cleaned_data ==
                 [f \in DOMAIN d |-> IF f \in int_fields THEN to_int(d[f]) ELSE d[f]]
         IN  IF \E f \in float_fields : cleaned_data[f] < 0
             THEN Raised("ValueError")
             ELSE IF cleaned_data.education
                        \notin { "Graduate", "Not Graduate", " Graduate", " Not Graduate" }
             THEN Raised("ValueError")
             ELSE IF cleaned_data.self_employed \notin { "Yes", "No", " Yes", " No" }
             THEN Raised("ValueError")
             ELSE IF ~InRange(0, cleaned_data.no_of_dependents, 10)
             THEN Raised("ValueError")
             ELSE IF ~InRange(300, cleaned_data.cibil_score, 900)
             THEN Raised("ValueError")
             ELSE IF ~InRange(1, cleaned_data.loan_term, 30)
             THEN Raised("ValueError")
             ELSE [cleaned_data EXCEPT
                      !.education = NormalizeLabel(cleaned_data.education),
                      !.self_employed = NormalizeLabel(cleaned_data.self_employed)]

\* A mapping as a caller holds it: the integer fields are Python ints.
AsPassed(d) ==
    [f \in DOMAIN d |-> IF f \in int_fields THEN PyInt(d[f]) ELSE d[f]]

\* The request body of test_streamlit_format: labels without leading space.
streamlit_data ==
    AsPassed([sample_data EXCEPT !.education = "Graduate", !.self_employed = "No"])

EducationValues ==
    { "Graduate", "Not Graduate", " Graduate", " Not Graduate", "graduate",
      "Graduate " }

SelfEmployedValues == { "Yes", "No", " Yes", " No", "yes", "" }

\* What validate_loan_input is called with: every pair of labels, each
\* numeric field just inside and just outside its range, integer fields as
\* floats with a fractional part and as text, and each field missing.
RawInputs ==
    { [streamlit_data EXCEPT !.education = e, !.self_employed = s] :
        e \in EducationValues, s \in SelfEmployedValues }
    \cup { [streamlit_data EXCEPT ![f] = x] : f \in float_fields, x \in { -10, 0 } }
    \cup { [streamlit_data EXCEPT !.no_of_dependents = PyInt(x)] : x \in { -1, 0, 10, 11 } }
    \cup { [streamlit_data EXCEPT !.cibil_score = PyInt(x)] : x \in { 299, 300, 900, 901 } }
    \cup { [streamlit_data EXCEPT !.loan_term = PyInt(x)] : x \in { 0, 1, 30, 31 } }
    \cup { [streamlit_data EXCEPT !.no_of_dependents = PyFloat(x)] : x \in { -5, 20, 105 } }
    \cup { [streamlit_data EXCEPT !.cibil_score = PyFloat(x)] : x \in { 2995, 7500, 9005 } }
    \cup { [streamlit_data EXCEPT !.loan_term = PyFloat(x)] : x \in { 5, 120, 305 } }
    \cup { [streamlit_data EXCEPT ![f] = PyStr("abc")] : f \in int_fields }
    \cup { AsPassed(d) : d \in IncompleteApplications }

other_vars == << request_vars, model_loader, calls >>

\* A caller passes its mapping to validate_loan_input.
ValidateCall ==
    /\ validation.pc = "idle"
    /\ \E d \in RawInputs :
          validation' = [IdleValidation EXCEPT !.pc = "called", !.data = d,
                                               !.passed = d]
    /\ UNCHANGED << other_vars, batch >>

\* The body of validate_loan_input.  Every write goes to cleaned_data, which
\* is the caller's mapping only if it is not a copy.
ValidateLoanInput ==
    /\ validation.pc = "called"
    /\ LET cleaned_data == data_copy(validation.data)
           result == validate_loan_input(cleaned_data.mapping)
       IN  validation' =
              [validation EXCEPT
                  !.pc = IF IsRaised(result) THEN "raised" ELSE "returned",
                  !.cleaned_data = result,
                  !.data = IF cleaned_data.is_copy \/ IsRaised(result)
                           THEN validation.data
                           ELSE result]
    /\ UNCHANGED << other_vars, batch >>

ValidateReturn ==
    /\ validation.pc \in { "returned", "raised" }
    /\ validation' = IdleValidation
    /\ UNCHANGED << other_vars, batch >>

NextValidator ==
    \/ ValidateCall
    \/ ValidateLoanInput
    \/ ValidateReturn

SpecValidator == Init /\ [][NextValidator]_vars

\* ------------------------------------------- endpoints.predict_batch

\* Largest number of items of a batch request.
MaxBatch == 2

\* Items of a batch: two applications that pass validation and differ, one
\* with a credit score out of range, one with an unknown label.
BatchItems ==
    { streamlit_data,
      [streamlit_data EXCEPT !.self_employed = " Yes", !.cibil_score = PyInt(400)],
      [streamlit_data EXCEPT !.cibil_score = PyInt(901)],
      [streamlit_data EXCEPT !.education = "graduate"] }

Batches == UNION { [1..n -> BatchItems] : n \in 0..MaxBatch }

\* raise HTTPException(status_code=400, detail=str(e))
HTTPException(e) ==
    [raised |-> "HTTPException", status_code |-> 400, detail |-> e.raised]

\* Variant: the new result is put in front.
AppendResult_front(results, result) == << result >> \o results

\* results.append(result)
AppendResult(results, result) == Append(results, result)

\* PredictionResponse(prediction=..., probability=..., confidence=...)
PredictionResponse(result) ==
    [prediction |-> result.prediction, probability |-> result.probability,
     confidence |-> result.confidence]

\* POST /predict/batch arrives.
BatchRequest ==
    /\ batch.pc = "idle"
    /\ \E items \in Batches :
          batch' = [IdleBatch EXCEPT !.pc = "validating", !.data = items]
    /\ UNCHANGED << other_vars, validation >>

\* One round of the loop over batch_request.data: the next item is validated
\* and appended; a ValueError leaves the handler through except Exception.
BatchValidate ==
    /\ batch.pc = "validating"
    /\ Len(batch.validated_data) < Len(batch.data)
    /\ LET item == batch.data[Len(batch.validated_data) + 1]
           cleaned == validate_loan_input(data_copy(item).mapping)
       IN  batch' =
              IF IsRaised(cleaned)
              THEN [batch EXCEPT !.pc = "failed", !.response = HTTPException(cleaned)]
              ELSE [batch EXCEPT !.validated_data = Append(@, cleaned)]
    /\ UNCHANGED << other_vars, validation >>

\* The loop is over: predictor.predict_batch(validated_data) is entered.
BatchValidated ==
    /\ batch.pc = "validating"
    /\ Len(batch.validated_data) = Len(batch.data)
    /\ batch' = [batch EXCEPT !.pc = "predicting"]
    /\ UNCHANGED << other_vars, validation >>

\* One round of the loop of LoanPredictor.predict_batch: predict_single on
\* the next item; the classifier answers or raises.
BatchPredict ==
    /\ batch.pc = "predicting"
    /\ Len(batch.results) < Len(batch.validated_data)
    /\ LET k == Len(batch.results) + 1
           item == batch.validated_data[k]
       IN  \/ \E p0 \in ApprovalProbabilities("recommend") :
                LET proba == << p0, 100 - p0 >>
                    result == predict_single(item, proba)
                IN  batch' =
                       IF IsRaised(result)
                       THEN [batch EXCEPT
                                !.pc = "failed",
                                !.response = HTTPException(LogAndRaise(result))]
                       ELSE [batch EXCEPT
                                !.answers = Append(@, proba),
                                !.invoked = @ \o [i \in 1..2 |->
                                    << k, ClassifierCalls("returns")[i] >>],
                                !.results = AppendResult(@, result)]
           \/ /\ ~IsRaised(preprocess_data(item))
              /\ \E outcome \in { "predict_proba_raises", "predict_raises" } :
                    batch' =
                       [batch EXCEPT
                           !.pc = "failed",
                           !.invoked = @ \o
                               [i \in 1..Len(ClassifierCalls(outcome)) |->
                                   << k, ClassifierCalls(outcome)[i] >>],
                           !.response =
                               HTTPException(LogAndRaise(Raised("ClassifierError")))]
    /\ UNCHANGED << other_vars, validation >>

\* predict_batch has returned: the response is built from results.
BatchRespond ==
    /\ batch.pc = "predicting"
    /\ Len(batch.results) = Len(batch.validated_data)
    /\ batch' =
          [batch EXCEPT
              !.pc = "done",
              !.response =
                  [predictions |->
                      [i \in 1..Len(batch.results) |->
                          PredictionResponse(batch.results[i])]]]
    /\ UNCHANGED << other_vars, validation >>

\* The response or the HTTPException has left the handler.
BatchReturn ==
    /\ batch.pc \in { "done", "failed" }
    /\ batch' = IdleBatch
    /\ UNCHANGED << other_vars, validation >>

NextBatch ==
    \/ BatchRequest
    \/ BatchValidate
    \/ BatchValidated
    \/ BatchPredict
    \/ BatchRespond
    \/ BatchReturn

SpecBatch == Init /\ [][NextBatch]_vars

\* ------------------------------------------------------------ vocabulary

\* generate_recommendations has returned.
RecommendDone == pc = "done" /\ endpoint = "recommend"

\* ... for an application predicted Approved / Rejected.
ApprovedDone == RecommendDone /\ explanation.prediction \in { "Approved", " Approved" }
RejectedDone == RecommendDone /\ explanation.prediction \in { "Rejected", " Rejected" }

\* explain_prediction has returned an explanation.
Explained == ~IsNone(explanation)

TopList == explanation.top_contributing_features
TopFeatures == { TopList[i].feature : i \in 1..Len(TopList) }
Attribution(f) == explanation.shap_values[f]

Recs == response.recommendations
RecFeatures == { Recs[i].feature : i \in 1..Len(Recs) }
Improvements == response.potential_improvements

RuleFeatures ==
    { "cibil_score", "income_annum", "loan_amount", "loan_term",
      "bank_asset_value", "residential_assets_value" }

\* The trigger column of the rule table.
Trigger(f) ==
    CASE f = "cibil_score" -> data.cibil_score < 550
      [] f = "loan_amount" -> data.loan_amount > data.income_annum * 3
      [] f = "loan_term"   -> data.loan_term > 15
      [] f \in { "income_annum", "bank_asset_value", "residential_assets_value" } -> TRUE
      [] OTHER -> FALSE

\* --------------------------------------------------------------------- C1

\* C1: when the predicted label, stripped of surrounding whitespace, is
\* Approved, generate_recommendations returns exactly one recommendation
\* (feature loan_approved, priority High, actionable) and an empty
\* potential_improvements map, whatever the attributions are.
C1_ApprovedShortCircuit ==
    ApprovedDone =>
        /\ Len(Recs) = 1
        /\ Recs[1].feature = "loan_approved"
        /\ Recs[1].priority = "High"
        /\ Recs[1].actionable = TRUE
        /\ DOMAIN Improvements = {}
        /\ RecFeatures \cap Features = {}

\* An approved application whose credit score would fire the cibil_score
\* rule and the improvement estimate had it been rejected.
C1_Witness ==
    /\ ApprovedDone
    /\ explanation.prediction = " Approved"
    /\ data.cibil_score = 500
    /\ Attribution("cibil_score") = -3000
    /\ "cibil_score" \in TopFeatures

\* --------------------------------------------------------------------- C2

\* C2: for a Rejected prediction a recommendation for feature f is emitted
\* if and only if f is in the top-5 list with attribution < 0, f is one of
\* the six rule features and f's trigger holds; features outside the table
\* never produce one.
C2_RuleTableEmission ==
    RejectedDone =>
        /\ RecFeatures \subseteq Features
        /\ \A f \in Features :
              f \in RecFeatures <=>
                  /\ f \in TopFeatures
                  /\ Attribution(f) < 0
                  /\ f \in RuleFeatures
                  /\ Trigger(f)

\* education (no rule) and cibil_score at 550 (trigger false) are negative
\* and in the top 5 without a recommendation; loan_amount has one.
C2_Witness ==
    /\ RejectedDone
    /\ { "education", "cibil_score", "loan_amount" } \subseteq TopFeatures
    /\ Attribution("education") < 0
    /\ Attribution("cibil_score") < 0
    /\ data.cibil_score = 550
    /\ "loan_amount" \in RecFeatures
    /\ "education" \notin RecFeatures
    /\ "cibil_score" \notin RecFeatures

\* --------------------------------------------------------------------- C3

\* The priority and actionable columns of the rule table.
TablePriority(f) ==
    CASE f \in { "cibil_score", "loan_amount" } -> "High"
      [] f \in { "income_annum", "loan_term", "bank_asset_value" } -> "Medium"
      [] f = "residential_assets_value" -> "Low"
      [] OTHER -> "none"

TableActionable(f) == f # "residential_assets_value"

\* C3: every recommendation emitted for a Rejected prediction carries the
\* priority and actionable flag of its table row, impact = |attribution| of
\* its feature, current_value = the feature's input value, and for
\* loan_amount the target income_annum * 3 (current 30,000,000 with income
\* 8,000,000 gives 24,000,000); the cibil_score text names "550+".
C3_RecommendationFields ==
    RejectedDone =>
        \A i \in 1..Len(Recs) :
            LET r == Recs[i]
                f == r.feature
            IN  /\ f \in RuleFeatures
                /\ r.priority = TablePriority(f)
                /\ r.actionable = TableActionable(f)
                /\ r.impact = Abs(Attribution(f))
                /\ r.impact >= 0
                /\ r.current_value = data[f]
                /\ f = "loan_amount" =>
                      /\ r.recommendation.args =
                            << data.loan_amount, data.income_annum * 3 >>
                      /\ (data.loan_amount = 300 /\ data.income_annum = 80)
                            => r.recommendation.args[2] = 240
                /\ f = "cibil_score" =>
                      r.recommendation.text =
                        "Improve CIBIL score from {} to 550+ for better approval chances"

\* A loan of 30,000,000 on an income of 8,000,000 with the loan_amount and
\* residential_assets_value rules both fired.
C3_Witness ==
    /\ RejectedDone
    /\ data.loan_amount = 300
    /\ data.income_annum = 80
    /\ \E i \in 1..Len(Recs) :
          /\ Recs[i].feature = "loan_amount"
          /\ Recs[i].recommendation.args[2] = 240
          /\ Recs[i].priority = "High"
    /\ \E i \in 1..Len(Recs) :
          /\ Recs[i].feature = "residential_assets_value"
          /\ Recs[i].actionable = FALSE
          /\ Recs[i].impact = 3000

\* --------------------------------------------------------------------- C4

\* C4: recommendations come only from the top-5 list, only from entries
\* with attribution < 0, and appear in ascending attribution order (most
\* negative first).
C4_CandidatesFromTop5 ==
    RejectedDone =>
        /\ \A i \in 1..Len(Recs) :
              /\ Recs[i].feature \in TopFeatures
              /\ Attribution(Recs[i].feature) < 0
        /\ \A f \in Features \ TopFeatures : f \notin RecFeatures
        /\ \A i, j \in 1..Len(Recs) :
              i < j => Attribution(Recs[i].feature) <= Attribution(Recs[j].feature)

\* residential_assets_value is negative and has an unconditional rule but
\* ranks below the top 5, and two recommendations of different attribution
\* are emitted in order.
C4_Witness ==
    /\ RejectedDone
    /\ "residential_assets_value" \notin TopFeatures
    /\ Attribution("residential_assets_value") < 0
    /\ "residential_assets_value" \notin RecFeatures
    /\ Len(Recs) >= 2
    /\ Attribution(Recs[1].feature) < Attribution(Recs[2].feature)

\* --------------------------------------------------------------------- C5

\* C5: for a Rejected prediction the key set of potential_improvements is
\* exactly the features f of the whole attribution map with
\* attribution(f) < -0.05 and f = income_annum, or f = cibil_score with
\* current < 750, or f = loan_amount with current > income_annum * 3.
C5_ImprovementKeys ==
    RejectedDone =>
        DOMAIN Improvements =
            { f \in Features :
                /\ Attribution(f) < -500
                /\ \/ f = "income_annum"
                   \/ f = "cibil_score" /\ data.cibil_score < 750
                   \/ f = "loan_amount" /\ data.loan_amount > data.income_annum * 3 }

\* cibil_score has an improvement estimate while ranking below the top 5
\* and having no recommendation; loan_term, in the top 5 and below -0.05,
\* has none.
C5_Witness ==
    /\ RejectedDone
    /\ "cibil_score" \in DOMAIN Improvements
    /\ "cibil_score" \notin TopFeatures
    /\ "cibil_score" \notin RecFeatures
    /\ "loan_term" \in TopFeatures
    /\ Attribution("loan_term") < -500
    /\ "loan_term" \notin DOMAIN Improvements

\* --------------------------------------------------------------------- C6

\* Equality of the rational q (in lowest terms) with n / d.
RatEq(q, n, d) == q.num * d = n * q.den

C7_OneEntryPerFeature ==
    Explained =>
        /\ DOMAIN explanation.shap_values =
              { "no_of_dependents", "education", "self_employed", "income_annum",
                "loan_amount", "loan_term", "cibil_score",
                "residential_assets_value", "commercial_assets_value",
                "luxury_assets_value", "bank_asset_value" }
        /\ Cardinality(DOMAIN explanation.shap_values) = 11

\* An explanation built from a pair of per-class, multi-sample arrays.
C7_Witness ==
    /\ Explained
    /\ pc = "done"
    /\ endpoint = "explain"
    /\ isinstance_list(shap_values)
    /\ Len(shap_values.items[1].shape) = 2
    /\ shap_values.items[1].shape[2] = 11

\* --------------------------------------------------------------------- C8

\* The value of feature position i (1-based) for sample 0 and class 0 in
\* each of the four shapes.
Class0Value(raw, i) ==
    IF hasattr_shape(raw)
    THEN CASE Len(raw.shape) = 3 -> raw.v[1][i][1]
           [] Len(raw.shape) = 2 -> raw.v[1][i]
           [] Len(raw.shape) = 1 -> raw.v[i]
    ELSE IF Len(raw.items[1].shape) = 2
         THEN raw.items[1].v[1][i]
         ELSE raw.items[1].v[i]

\* C8: shape normalisation always selects sample 0 and class 0: raw[0][i][0]
\* for a 3-D array, raw[0][i] for a 2-D array, raw[i] for a 1-D array,
\* raw[0][i] for a per-class pair, or raw[0][0][i] when its element 0 is
\* multi-sample; the Rejected class's values are never used.
C8_Sample0Class0 ==
    Explained =>
        \A i \in 1..NumFeatures :
            explanation.shap_values[feature_names[i]] = Class0Value(shap_values, i)

\* A per-class pair of multi-sample arrays whose two classes disagree on
\* cibil_score, normalised to the class-0 value.
C8_Witness ==
    /\ Explained
    /\ isinstance_list(shap_values)
    /\ Len(shap_values.items[1].shape) = 2
    /\ shap_values.items[1].v[1][7] = -3000
    /\ shap_values.items[2].v[1][7] = 3000
    /\ explanation.shap_values["cibil_score"] = -3000

\* --------------------------------------------------------------------- C9

\* The number of per-feature values a raw attribution output resolves to:
\* the length of its feature axis.
ResolvedCount(raw) ==
    IF hasattr_shape(raw)
    THEN IF Len(raw.shape) = 1 THEN raw.shape[1] ELSE raw.shape[2]
    ELSE raw.items[1].shape[Len(raw.items[1].shape)]

\* explain_prediction has finished, one way or the other, on an answer of
\* the attribution oracle.
ExplainFinished ==
    /\ pc \in { "explained", "done", "failed" }
    /\ endpoint \in { "explain", "recommend" }
    /\ ~IsNone(shap_values)

\* C9: normalisation fails, and returns no attribution map, whenever the
\* number of values resolved from the raw output differs from the number of
\* configured features, with fewer values and with more.
C9_MismatchFails ==
    (ExplainFinished /\ ResolvedCount(shap_values) # NumFeatures) =>
        /\ pc = "failed"
        /\ IsRaised(response)
        /\ IsNone(explanation)

\* -------------------------------------------------------------------- C10

\* C10: the top list has exactly 5 entries with ranks 1..5 in list order,
\* is sorted by non-increasing |attribution|, and every feature outside it
\* has |attribution| at most that of the 5th entry.
C10_Top5Ranking ==
    Explained =>
        /\ Len(TopList) = 5
        /\ Cardinality(TopFeatures) = 5
        /\ \A i \in 1..Len(TopList) :
              /\ TopList[i].rank = i
              /\ TopList[i].feature \in Features
              /\ TopList[i].shap_value = Attribution(TopList[i].feature)
        /\ \A i \in 1..(Len(TopList) - 1) :
              Abs(TopList[i].shap_value) >= Abs(TopList[i + 1].shap_value)
        /\ \A f \in Features \ TopFeatures :
              Abs(Attribution(f)) <= Abs(TopList[Len(TopList)].shap_value)

\* A ranking of mixed signs with strictly decreasing magnitudes, a positive
\* entry ranked above a negative one, and a feature left out.
C10_Witness ==
    /\ Explained
    /\ \A i \in 1..4 : Abs(TopList[i].shap_value) > Abs(TopList[i + 1].shap_value)
    /\ TopList[1].shap_value > 0
    /\ TopList[2].shap_value < 0
    /\ \E f \in Features \ TopFeatures :
          0 < Abs(Attribution(f)) /\ Abs(Attribution(f)) < Abs(TopList[5].shap_value)

\* -------------------------------------------------------------------- C11

\* C11: features of equal |attribution| are ranked in feature-declaration
\* order: within the top list the earlier-declared of two tied features comes
\* first, and when a tie straddles the 5th position the list keeps the
\* earlier-declared feature and leaves out the later-declared one.
C11_TiesByDeclarationOrder ==
    Explained =>
        /\ \A i, j \in 1..Len(TopList) :
              (i < j /\ Abs(TopList[i].shap_value) = Abs(TopList[j].shap_value))
                  => FeatureIndex(TopList[i].feature) < FeatureIndex(TopList[j].feature)
        /\ \A f \in TopFeatures, g \in Features \ TopFeatures :
              Abs(Attribution(f)) = Abs(Attribution(g))
                  => FeatureIndex(f) < FeatureIndex(g)

\* A tie of opposite signs that straddles the 5th position (the list keeps
\* loan_term and leaves out residential_assets_value) next to a tie of
\* opposite signs inside the list.
C11_Witness ==
    /\ Explained
    /\ TopList[5].feature = "loan_term"
    /\ "residential_assets_value" \notin TopFeatures
    /\ Attribution("residential_assets_value") = -TopList[5].shap_value
    /\ TopList[3].feature = "loan_amount"
    /\ TopList[4].feature = "luxury_assets_value"
    /\ TopList[3].shap_value = -TopList[4].shap_value
    /\ TopList[3].shap_value # 0

\* -------------------------------------------------------------------- C12

FeatureImpact == explanation.feature_impact

\* C12: a feature is a key of feature_impact exactly when its |attribution|
\* is strictly above 0.1; its text says "Increases approval probability by"
\* when the attribution is positive and "Decreases approval probability by"
\* otherwise, followed by |attribution| rounded to the nearest thousandth.
C12_FeatureImpact ==
    Explained =>
        /\ DOMAIN FeatureImpact =
              { f \in Features : Abs(Attribution(f)) > ImpactThreshold }
        /\ \A f \in DOMAIN FeatureImpact :
              /\ FeatureImpact[f].text =
                    IF Attribution(f) > 0
                    THEN "Increases approval probability by"
                    ELSE "Decreases approval probability by"
              /\ Abs(10 * FeatureImpact[f].amount - Abs(Attribution(f))) <= 5

\* Attributions of exactly 0.1 and -0.1 are left out, 0.1004 and -0.1004 are
\* in (as 0.100), -0.1236 is rounded up to 0.124 and 0.2504 down to 0.250.
C12_Witness ==
    /\ Explained
    /\ Attribution("no_of_dependents") = ImpactThreshold
    /\ Attribution("commercial_assets_value") = -ImpactThreshold
    /\ "no_of_dependents" \notin DOMAIN FeatureImpact
    /\ "commercial_assets_value" \notin DOMAIN FeatureImpact
    /\ Attribution("loan_term") = 1004
    /\ FeatureImpact["loan_term"] =
          [text |-> "Increases approval probability by", amount |-> 100]
    /\ Attribution("residential_assets_value") = -1004
    /\ FeatureImpact["residential_assets_value"] =
          [text |-> "Decreases approval probability by", amount |-> 100]
    /\ Attribution("loan_amount") = -1236
    /\ FeatureImpact["loan_amount"].amount = 124
    /\ Attribution("cibil_score") = 2504
    /\ FeatureImpact["cibil_score"].amount = 250

\* -------------------------------------------------------------------- C13

\* predict_single has returned a prediction for the request in flight.
Predicted == ~IsNone(prediction_result)

\* C13: the confidence of a prediction is "High" exactly when the
\* probability of the predicted class is at least 0.8, "Medium" exactly when
\* it is at least 0.6 and below 0.8, and "Low" exactly when it is below 0.6.
C13_ConfidenceLevels ==
    Predicted =>
        LET p == prediction_result.probability
            c == prediction_result.confidence
        IN  /\ c \in { "High", "Medium", "Low" }
            /\ (c = "High") <=> (p >= 80)
            /\ (c = "Medium") <=> (60 <= p /\ p < 80)
            /\ (c = "Low") <=> (p < 60)
            /\ \E k \in 1..2 :
                  /\ prediction_result.prediction = target_classes[k]
                  /\ p = prediction_result.prediction_proba[k]

\* The predict endpoint answers with probability exactly 0.6, which is
\* "Medium".
C13_Witness ==
    /\ pc = "done"
    /\ endpoint = "predict"
    /\ response.probability = 60
    /\ response.confidence = "Medium"

\* -------------------------------------------------------------------- C14

RecommendationFields ==
    { "priority", "feature", "current_value", "recommendation", "impact",
      "actionable" }

\* C14: every element of the recommendations returned by
\* generate_recommendations, for an Approved as for a Rejected prediction,
\* has the six fields priority, feature, current_value, recommendation,
\* impact and actionable, and its priority is High, Medium or Low.
C14_AllSixFields ==
    RecommendDone =>
        \A i \in 1..Len(Recs) :
            /\ DOMAIN Recs[i] = RecommendationFields
            /\ Recs[i].priority \in { "High", "Medium", "Low" }

\* -------------------------------------------------------------------- C15

\* generate_recommendations has returned for a Rejected application whose
\* only top-5 feature with negative attribution is loan_amount and whose
\* credit score is at least 750.
OnlyLoanAmountNegative ==
    /\ RejectedDone
    /\ { f \in TopFeatures : Attribution(f) < 0 } = { "loan_amount" }
    /\ data.cibil_score >= 750

\* C15 as stated: in that case the recommendations are one loan_amount
\* entry, and potential_improvements has a loan_amount key, plus an
\* income_annum key only if income_annum's attribution is below -0.05, and
\* no other key.
C15_OnlyLoanAmount ==
    OnlyLoanAmountNegative =>
        /\ Len(Recs) = 1
        /\ Recs[1].feature = "loan_amount"
        /\ "loan_amount" \in DOMAIN Improvements
        /\ DOMAIN Improvements \subseteq { "loan_amount", "income_annum" }
        /\ "income_annum" \in DOMAIN Improvements
              => Attribution("income_annum") < ImprovementThreshold

\* C15, amended: in that case no feature other than loan_amount gets a
\* recommendation, and loan_amount gets exactly one when loan_amount is above
\* three times income_annum and none otherwise; potential_improvements has a
\* loan_amount key exactly when loan_amount is above three times income_annum
\* and its attribution is below -0.05, an income_annum key exactly when
\* income_annum's attribution is below -0.05, and no other key.
C15_LoanAmountEndToEnd ==
    OnlyLoanAmountNegative =>
        /\ RecFeatures \subseteq { "loan_amount" }
        /\ Len(Recs) = IF Trigger("loan_amount") THEN 1 ELSE 0
        /\ DOMAIN Improvements =
              { f \in { "loan_amount" } :
                  Trigger(f) /\ Attribution(f) < ImprovementThreshold }
              \cup { f \in { "income_annum" } :
                       Attribution(f) < ImprovementThreshold }

\* The loan above three times the income, with both keys present: income_annum
\* is outside the top 5 with an attribution of -0.06.
C15_Witness ==
    /\ OnlyLoanAmountNegative
    /\ Trigger("loan_amount")
    /\ Len(Recs) = 1
    /\ "income_annum" \notin TopFeatures
    /\ DOMAIN Improvements = { "loan_amount", "income_annum" }

\* -------------------------------------------------------------------- C16

ExplanationFields ==
    { "prediction", "probability", "shap_values", "top_contributing_features",
      "feature_impact" }

RecommendationSetFields ==
    { "current_prediction", "recommendations", "potential_improvements" }

\* C16: when the classifier call, the attribution call or the normalization
\* raises during explain_prediction or generate_recommendations, the caller
\* gets that same exception and no result, whole or partial; when nothing
\* raises, the caller gets a result with all of its fields.
C16_NoPartialResult ==
    /\ ~IsNone(raised) =>
          /\ pc = "failed"
          /\ response = raised
    /\ pc = "failed" => ~IsNone(raised) /\ IsRaised(response)
    /\ (pc = "done" /\ endpoint = "explain") =>
          /\ IsNone(raised)
          /\ DOMAIN response = ExplanationFields
    /\ (pc = "done" /\ endpoint = "recommend") =>
          /\ IsNone(raised)
          /\ DOMAIN response = RecommendationSetFields

\* The attribution oracle raised while generate_recommendations was running.
C16_Witness ==
    /\ pc = "failed"
    /\ endpoint = "recommend"
    /\ ~IsNone(prediction_result)
    /\ raised = Raised("AttributionError")
    /\ response = Raised("AttributionError")

\* -------------------------------------------------------------------- C17

\* The core has worked on an input that lacks one of the configured features.
FeatureMissing ==
    /\ pc \notin { "idle", "received" }
    /\ endpoint \in Endpoints
    /\ \E f \in Features : f \notin DOMAIN data

\* C17: when any of the 11 required features is absent from the input,
\* predict_single, explain_prediction and generate_recommendations each fail
\* with the missing-column error, before any oracle is called, and return no
\* result.
C17_MissingFeatureFails ==
    FeatureMissing =>
        /\ pc = "failed"
        /\ raised = Raised("ValueError")
        /\ response = Raised("ValueError")
        /\ IsNone(prediction_result)
        /\ IsNone(shap_values)
        /\ IsNone(explanation)

\* generate_recommendations failed for an application without cibil_score.
C17_Witness ==
    /\ FeatureMissing
    /\ endpoint = "recommend"
    /\ DOMAIN data = Features \ { "cibil_score" }
    /\ response = Raised("ValueError")

\* -------------------------------------------------------------------- C18

\* C18: once explain_prediction has succeeded on an input the validator
\* accepts (amounts of zero included), the recommendation and improvement
\* steps do not fail; the loan-amount improvement never divides by zero,
\* because its guard, loan_amount above three times income_annum, is only
\* true for a loan_amount above zero.
C18_RecommendationNeverFails ==
    (endpoint = "recommend" /\ Explained /\ ValidatorAccepts(data)) =>
        /\ pc \in { "explained", "done" }
        /\ IsNone(raised)
        /\ Trigger("loan_amount") => data.loan_amount > 0
        /\ (pc = "done" /\ "loan_amount" \in DOMAIN Improvements)
              => data.loan_amount > 0

\* generate_recommendations returned for an income and a loan amount of
\* zero, with loan_amount among the negative top features and below -0.05.
C18_Witness ==
    /\ RejectedDone
    /\ ValidatorAccepts(data)
    /\ data.income_annum = 0
    /\ data.loan_amount = 0
    /\ "loan_amount" \in TopFeatures
    /\ Attribution("loan_amount") < ImprovementThreshold
    /\ "loan_amount" \notin DOMAIN Improvements

\* -------------------------------------------------------------------- C19

\* C19: after the load at startup, nothing a request does, whether it
\* succeeds or fails, changes the shared loader: its models, its encoders
\* and its feature-name list stay as loaded, and a caller that changes the
\* list get_feature_names handed out changes only its own copy.
C19_SharedStateUnchanged ==
    /\ model_loader = LoadedAtStartup
    /\ model_loader.feature_names = feature_names
    /\ (pc = "done" /\ endpoint = "models") =>
          response.feature_count = NumFeatures

\* A caller has changed the list it was handed; the loader's list is as
\* loaded.
C19_Witness ==
    /\ pc = "done"
    /\ endpoint = "models"
    /\ response.features.list # feature_names
    /\ Len(response.features.list) = NumFeatures + 1
    /\ model_loader.feature_names = feature_names

\* -------------------------------------------------------------------- C20

\* What a call returns or raises when it runs alone: a function of the
\* endpoint, the caller's mapping and the two oracles' answers to this call.
RunAlone(ep, d, classifier_answer, attribution_answer) ==
    LET processed == preprocess_data(d)
    IN  IF IsRaised(processed)
        THEN Propagate(processed, "predict_single", ep)
        ELSE IF IsRaised(classifier_answer)
        THEN Propagate(classifier_answer, "predict_single", ep)
        ELSE LET pr == predict_single(d, classifier_answer.proba)
             IN  IF ep = "predict" THEN pr
                 ELSE IF IsRaised(attribution_answer)
                 THEN Propagate(attribution_answer, "explain_prediction", ep)
                 ELSE LET ex == BuildExplanation(pr, processed, attribution_answer)
                      IN  IF IsRaised(ex)
                          THEN Propagate(ex, "explain_prediction", ep)
                          ELSE IF ep = "explain" THEN ex
                          ELSE LET rs == BuildRecommendations(d, ex)
                               IN  IF IsRaised(rs)
                                   THEN Propagate(rs, "generate_recommendations", ep)
                                   ELSE rs

\* C20: calls keep no state in common: whatever other calls do in between,
\* finished, failed or abandoned, a call returns or raises what it would when
\* run alone on its own input and its own oracle answers, and the caller's
\* mapping is as the caller passed it.
C20_NoCrossRequestState ==
    \A c \in Calls :
        LET r == calls[c]
        IN  /\ r.pc # "idle" => r.data = r.submitted
            /\ r.pc \in { "done", "failed" } =>
                  r.response = RunAlone(r.endpoint, r.submitted,
                                        r.classifier_answer, r.shap_values)
            /\ r.pc = "done" <=> (~IsNone(r.response) /\ ~IsRaised(r.response))

\* One call has returned recommendations for a Rejected application while
\* another call, on a different application, holds an Approved explanation.
C20_Witness ==
    /\ calls["c1"].pc = "done"
    /\ calls["c1"].endpoint = "recommend"
    /\ calls["c1"].explanation.prediction = " Rejected"
    /\ Len(calls["c1"].response.recommendations) > 1
    /\ calls["c2"].pc = "explained"
    /\ calls["c2"].explanation.prediction = " Approved"
    /\ calls["c2"].data # calls["c1"].data

\* -------------------------------------------------------------------- C21

OracleMethods == { "predict_proba", "predict", "shap_values" }

Invoked(m) == \E i \in 1..Len(invoked) : invoked[i] = m

\* C21: within one request the classifier is asked before the attribution
\* oracle and nothing is tried twice: no oracle method is invoked more than
\* once, the attribution oracle is invoked only after both classifier
\* methods have returned, never after the prediction step raised, and once
\* an oracle has raised the request invokes no oracle again.
C21_PredictionFirstNoRetry ==
    /\ [](/\ \A i, j \in 1..Len(invoked) : invoked[i] = invoked[j] => i = j
          /\ \A i \in 1..Len(invoked) : invoked[i] \in OracleMethods
          /\ Invoked("shap_values") =>
                /\ invoked = << "predict_proba", "predict", "shap_values" >>
                /\ ~IsNone(prediction_result)
          /\ (pc = "failed" /\ IsNone(prediction_result)) => ~Invoked("shap_values")
          /\ (pc = "failed" /\ raised = Raised("ClassifierError")) =>
                invoked \in { << "predict_proba" >>, << "predict_proba", "predict" >> })
    /\ [][pc = "failed" => (invoked' = invoked \/ pc' = "idle")]_vars

\* explain_prediction failed at model.predict_proba: one oracle invocation,
\* no attribution call.
C21_Witness ==
    /\ pc = "failed"
    /\ endpoint = "explain"
    /\ raised = Raised("ClassifierError")
    /\ invoked = << "predict_proba" >>

\* -------------------------------------------------------------------- C22

BareLabels == { "Graduate", "Not Graduate", "Yes", "No" }
SpacedLabels == { " Graduate", " Not Graduate", " Yes", " No" }

\* The mapping with its integer fields as plain integers.
Cleaned(d) ==
    [f \in DOMAIN d |-> IF f \in int_fields THEN d[f].v ELSE d[f]]

\* The mapping with the two labels in their leading-space form.
LeadingSpaceForm(d) ==
    [d EXCEPT
        !.education = IF @ = "Graduate" THEN " Graduate"
                      ELSE IF @ = "Not Graduate" THEN " Not Graduate" ELSE @,
        !.self_employed = IF @ = "Yes" THEN " Yes"
                          ELSE IF @ = "No" THEN " No" ELSE @]

\* validate_loan_input has finished on a mapping that has every field and
\* whose numeric fields are in range.
LabelsDecide ==
    /\ validation.pc \in { "returned", "raised" }
    /\ DOMAIN validation.passed = Features
    /\ \A f \in float_fields : validation.passed[f] >= 0
    /\ \A f \in int_fields : validation.passed[f].kind = "int"
    /\ 0 <= validation.passed.no_of_dependents.v
    /\ validation.passed.no_of_dependents.v <= 10
    /\ 300 <= validation.passed.cibil_score.v
    /\ validation.passed.cibil_score.v <= 900
    /\ 1 <= validation.passed.loan_term.v
    /\ validation.passed.loan_term.v <= 30

\* C22: education and self_employed are accepted without and with the
\* leading space and come out in the leading-space form, so that both forms
\* give the core the same mapping, which it accepts, and the endpoints the
\* same result; any other value of either field is rejected.
C22_LabelForms ==
    LabelsDecide =>
        LET d == validation.passed
            recognised ==
                /\ d.education \in { "Graduate", "Not Graduate", " Graduate", " Not Graduate" }
                /\ d.self_employed \in { "Yes", "No", " Yes", " No" }
        IN  /\ recognised <=> validation.pc = "returned"
            /\ ~recognised => IsRaised(validation.cleaned_data)
            /\ recognised =>
                  /\ validation.cleaned_data = LeadingSpaceForm(Cleaned(d))
                  /\ validation.cleaned_data.education \in SpacedLabels
                  /\ validation.cleaned_data.self_employed \in SpacedLabels
                  /\ ValidatorAccepts(validation.cleaned_data)
                  /\ \A ep \in Endpoints, p0 \in { 20, 90 }, ch \in ConcurrentRawChoices :
                        LET answer == [proba |-> << p0, 100 - p0 >>]
                            raw == RawOutput(ch[1], ch[2])
                        IN  /\ RunAlone(ep, validation.cleaned_data, answer, raw)
                                  = RunAlone(ep, LeadingSpaceForm(Cleaned(d)), answer, raw)
                            /\ ~IsRaised(preprocess_data(validation.cleaned_data))

\* The request body of the Streamlit client, labels without leading space,
\* came out with the leading-space labels.
C22_Witness ==
    /\ validation.pc = "returned"
    /\ validation.passed = streamlit_data
    /\ validation.passed.education = "Graduate"
    /\ validation.passed.self_employed = "No"
    /\ validation.cleaned_data = sample_data

\* -------------------------------------------------------------------- C23

\* Ten times the number a caller put in an integer field.
Tenths(x) == IF x.kind = "int" THEN 10 * x.v ELSE x.tenths

IsNumber(x) == x.kind \in { "int", "float" }

\* A required field is missing, an amount is negative, or an integer field
\* holds a number outside its range.
ToBeRejected(d) ==
    \/ \E f \in Features : f \notin DOMAIN d
    \/ /\ DOMAIN d = Features
       /\ \/ \E f \in float_fields : d[f] < 0
          \/ /\ IsNumber(d.no_of_dependents)
             /\ (Tenths(d.no_of_dependents) < 0 \/ Tenths(d.no_of_dependents) > 100)
          \/ /\ IsNumber(d.cibil_score)
             /\ (Tenths(d.cibil_score) < 3000 \/ Tenths(d.cibil_score) > 9000)
          \/ /\ IsNumber(d.loan_term)
             /\ (Tenths(d.loan_term) < 10 \/ Tenths(d.loan_term) > 300)

\* All 11 fields are there, every number is inside its range and the two
\* labels are recognised.
ToBeAccepted(d) ==
    /\ DOMAIN d = Features
    /\ \A f \in float_fields : d[f] >= 0
    /\ \A f \in int_fields : IsNumber(d[f])
    /\ 0 <= Tenths(d.no_of_dependents) /\ Tenths(d.no_of_dependents) <= 100
    /\ 3000 <= Tenths(d.cibil_score) /\ Tenths(d.cibil_score) <= 9000
    /\ 10 <= Tenths(d.loan_term) /\ Tenths(d.loan_term) <= 300
    /\ d.education \in { "Graduate", "Not Graduate", " Graduate", " Not Graduate" }
    /\ d.self_employed \in { "Yes", "No", " Yes", " No" }

\* C23: validate_loan_input raises, and returns no cleaned data, on every
\* input with a missing field, a negative amount, or no_of_dependents,
\* cibil_score or loan_term outside 0..10, 300..900, 1..30; it returns
\* cleaned data on every input with all 11 fields inside the ranges and
\* recognised labels; the caller's mapping is never modified.
C23_RangesDecide ==
    validation.pc \in { "returned", "raised" } =>
        /\ ToBeRejected(validation.passed) =>
              validation.pc = "raised" /\ IsRaised(validation.cleaned_data)
        /\ ToBeAccepted(validation.passed) =>
              validation.pc = "returned" /\ ~IsRaised(validation.cleaned_data)
        /\ validation.data = validation.passed

\* -------------------------------------------------------------------- C24

\* Every item of the batch passes validate_loan_input.
AllItemsValid ==
    \A i \in 1..Len(batch.data) : ~IsRaised(validate_loan_input(batch.data[i]))

\* C24: a classifier call is made only after every item of the batch has
\* been validated; a batch with an item that fails validation ends as a
\* failed request without a classifier call and without predictions; a
\* response carries exactly one prediction per item, the k-th being the
\* prediction for the k-th item.  Every item that got a prediction got it
\* from one predict_proba and one predict call, in item order.
C24_BatchAllOrNothing ==
    /\ batch.invoked # << >> =>
          /\ Len(batch.validated_data) = Len(batch.data)
          /\ AllItemsValid
    /\ batch.pc \notin { "idle", "validating" } /\ ~AllItemsValid =>
          /\ batch.pc = "failed"
          /\ batch.invoked = << >>
          /\ batch.results = << >>
          /\ IsRaised(batch.response)
    /\ batch.pc = "failed" => IsRaised(batch.response)
    /\ batch.pc = "done" =>
          /\ AllItemsValid
          /\ Len(batch.response.predictions) = Len(batch.data)
          /\ Len(batch.invoked) = 2 * Len(batch.data)
          /\ \A k \in 1..Len(batch.data) :
                /\ batch.response.predictions[k] =
                      PredictionResponse(
                          predict_single(validate_loan_input(batch.data[k]),
                                         batch.answers[k]))
                /\ batch.invoked[2 * k - 1] = << k, "predict_proba" >>
                /\ batch.invoked[2 * k] = << k, "predict" >>

\* A batch of two different valid items got two different predictions.
C24_Witness ==
    /\ batch.pc = "done"
    /\ Len(batch.data) = 2
    /\ batch.data[1] # batch.data[2]
    /\ batch.response.predictions[1].prediction
          # batch.response.predictions[2].prediction

\* -------------------------------------------------------------------- C25

\* v, a quotient in lowest terms, is above zero and at most num / den times x.
PositiveAtMost(v, num, den, x) ==
    /\ v.den > 0
    /\ v.num > 0
    /\ v.num * den <= num * x * v.den

\* C25: on an application the validator accepts, every value of
\* potential_improvements is above zero and at most the absolute attribution
\* of its feature; the cibil_score value is at most half of it, the
\* loan_amount value at most all of it, and the income_annum value is exactly
\* a fifth of it.
C25_ImprovementBounds ==
    (RejectedDone /\ ValidatorAccepts(data)) =>
        \A f \in DOMAIN Improvements :
            LET v == Improvements[f]
                a == Abs(Attribution(f))
            IN  /\ f \in { "cibil_score", "loan_amount", "income_annum" }
                /\ PositiveAtMost(v, 1, 1, a)
                /\ f = "cibil_score" => PositiveAtMost(v, 1, 2, a)
                /\ f = "income_annum" => v = Rat(a * 2, 10)

\* The lowest credit score the validator accepts, 300, got an improvement of
\* exactly half the absolute attribution, and a loan with no income one of
\* the whole absolute attribution.
C25_Witness ==
    /\ RejectedDone
    /\ ValidatorAccepts(data)
    /\ data.cibil_score = 300
    /\ "cibil_score" \in DOMAIN Improvements
    /\ Improvements["cibil_score"] = Rat(Abs(Attribution("cibil_score")), 2)

\* -------------------------------------------------------------------- C26

\* C26: for a Rejected application the recommendation list has at most 5
\* entries, names no feature twice, names only features of the top-5 list
\* whose attribution is below zero, each with the absolute attribution as
\* its impact, and the impact values never increase along the list.
C26_RecommendationList ==
    (RejectedDone /\ ~IsRaised(response)) =>
        /\ Len(Recs) <= 5
        /\ \A i, j \in 1..Len(Recs) : Recs[i].feature = Recs[j].feature => i = j
        /\ \A i \in 1..Len(Recs) :
              /\ Recs[i].feature \in TopFeatures
              /\ Attribution(Recs[i].feature) < 0
              /\ Recs[i].impact = -Attribution(Recs[i].feature)
        /\ \A i \in 1..(Len(Recs) - 1) : Recs[i].impact >= Recs[i + 1].impact

\* Three recommendations, each with a lower impact than the one before.
C26_Witness ==
    /\ RejectedDone
    /\ Len(Recs) >= 3
    /\ Recs[1].impact > Recs[2].impact
    /\ Recs[2].impact > Recs[3].impact

\* -------------------------------------------------------------------- C27

EstimatedFeatures == { "cibil_score", "loan_amount", "income_annum" }

\* C27: a feature among cibil_score, loan_amount and income_annum that got a
\* recommendation and has an attribution below -0.05 has a key in
\* potential_improvements; loan_term, bank_asset_value and
\* residential_assets_value, with or without a recommendation, have none.
C27_RecommendationsAndImprovements ==
    (RejectedDone /\ ~IsRaised(response)) =>
        /\ \A i \in 1..Len(Recs) :
              LET f == Recs[i].feature
              IN  /\ (f \in EstimatedFeatures /\ Attribution(f) < ImprovementThreshold)
                        => f \in DOMAIN Improvements
                  /\ f \in RuleFeatures
                  /\ f \in RuleFeatures \ EstimatedFeatures
                        => f \notin DOMAIN Improvements
        /\ DOMAIN Improvements \subseteq EstimatedFeatures

\* A credit score of 500 got a recommendation and an improvement key, and a
\* feature outside the three, far below -0.05, a recommendation and no key.
C27_Witness ==
    /\ RejectedDone
    /\ data.cibil_score = 500
    /\ "cibil_score" \in RecFeatures
    /\ "cibil_score" \in DOMAIN Improvements
    /\ \E f \in RecFeatures \ EstimatedFeatures :
          /\ Attribution(f) < ImprovementThreshold
          /\ f \notin DOMAIN Improvements

\* -------------------------------------------------------------------- C28

\* C28: if a feature with an absolute attribution above 0.1 is outside the
\* top-5 list, each of the five listed features is a key of feature_impact;
\* put the other way round, if a listed feature is not a key of
\* feature_impact, every key of feature_impact is a listed feature.
C28_TopAndImpactNested ==
    Explained =>
        /\ (\E f \in Features \ TopFeatures : Abs(Attribution(f)) > ImpactThreshold)
              => TopFeatures \subseteq DOMAIN FeatureImpact
        /\ (\E f \in DOMAIN FeatureImpact : f \notin TopFeatures)
              => TopFeatures \subseteq DOMAIN FeatureImpact
        /\ (\E f \in TopFeatures : f \notin DOMAIN FeatureImpact)
              => DOMAIN FeatureImpact \subseteq TopFeatures

\* Six features are above 0.1 in absolute value: the one left out of the
\* top-5 list is a key of feature_impact, and so are the five listed.
C28_Witness ==
    /\ Explained
    /\ Cardinality(TopFeatures) = 5
    /\ \E f \in DOMAIN FeatureImpact : f \notin TopFeatures
    /\ TopFeatures \subseteq DOMAIN FeatureImpact

\* -------------------------------------------------------------------- C29

\* C29: a top-5 entry is labelled 'Positive' exactly when its attribution is
\* above zero and 'Negative' otherwise, and its importance is the absolute
\* attribution; a feature with an attribution of exactly zero is therefore
\* labelled 'Negative', and it has no impact text, no recommendation and no
\* improvement estimate.
C29_ZeroIsNegativeAndSilent ==
    Explained =>
        /\ \A i \in 1..Len(TopList) :
              /\ TopList[i].shap_value = Attribution(TopList[i].feature)
              /\ TopList[i].impact \in { "Positive", "Negative" }
              /\ TopList[i].impact = "Positive" <=> TopList[i].shap_value > 0
              /\ TopList[i].importance = Abs(TopList[i].shap_value)
              /\ TopList[i].shap_value = 0 => TopList[i].impact = "Negative"
        /\ \A f \in Features :
              Attribution(f) = 0 =>
                  /\ f \notin DOMAIN FeatureImpact
                  /\ (RejectedDone /\ ~IsRaised(response)) =>
                        /\ f \notin RecFeatures
                        /\ f \notin DOMAIN Improvements

\* income_annum, whose rule has no condition, is in the top-5 list with an
\* attribution of zero, labelled 'Negative', and got nothing.
C29_Witness ==
    /\ RejectedDone
    /\ \E i \in 1..Len(TopList) :
          /\ TopList[i].feature = "income_annum"
          /\ TopList[i].shap_value = 0
          /\ TopList[i].impact = "Negative"
    /\ "income_annum" \notin RecFeatures
    /\ "income_annum" \notin DOMAIN Improvements
    /\ "income_annum" \notin DOMAIN FeatureImpact

====
